---------------------------- MODULE Spec2Model ----------------------------
(***************************************************************************)
(* GeoImage (BIM-Model-from-image): the application state of src/App.tsx   *)
(* and the calibration state of the Viewer3D component                     *)
(* (src/components/Viewer3D.tsx, the variant of lines 277-624).            *)
(*                                                                         *)
(* JavaScript numbers are modelled as exact rationals <<n, d>> in lowest   *)
(* terms with d > 0, extended by NaN = <<0,0>> and +-Infinity = <<+-1,0>>; *)
(* floating-point rounding and overflow are not modelled.                  *)
(***************************************************************************)
EXTENDS Integers, Sequences, FiniteSets, TLC

(***************************************************************************)
(* Bounds of the model.                                                    *)
(***************************************************************************)
\* images held in state.images at most
MaxImages == 1
\* inference requests in flight at most
MaxInflight == 2

(***************************************************************************)
(* Numbers.                                                                *)
(***************************************************************************)
Abs(i) == IF i < 0 THEN -i ELSE i

Sign(i) == IF i < 0 THEN -1 ELSE IF i > 0 THEN 1 ELSE 0

RECURSIVE GCD(_, _)
GCD(a, b) == IF b = 0 THEN a ELSE GCD(b, a % b)

NaN == <<0, 0>>

Infinity == <<1, 0>>

\* the number n/d (d # 0) in lowest terms
Rat(n, d) ==
    IF d = 1 THEN <<n, 1>>
    ELSE IF n = 0 /\ d # 0 THEN <<0, 1>>
    ELSE LET g == GCD(Abs(n), Abs(d))
         IN  <<(Sign(d) * n) \div g, Abs(d) \div g>>

Num(i) == <<i, 1>>

isNaN(a) == a = NaN

IsFinite(a) == a[2] # 0

\* a * b
Mul(a, b) ==
    IF isNaN(a) \/ isNaN(b) THEN NaN
    ELSE IF ~IsFinite(a) \/ ~IsFinite(b)
         THEN (IF a[1] = 0 \/ b[1] = 0 THEN NaN ELSE <<Sign(a[1]) * Sign(b[1]), 0>>)
    ELSE Rat(a[1] * b[1], a[2] * b[2])

\* a / b, with JavaScript's results for a zero or infinite operand
Div(a, b) ==
    IF isNaN(a) \/ isNaN(b) THEN NaN
    ELSE IF ~IsFinite(b) THEN (IF ~IsFinite(a) THEN NaN ELSE Num(0))
    ELSE IF ~IsFinite(a) THEN <<Sign(a[1]) * (IF b[1] < 0 THEN -1 ELSE 1), 0>>
    ELSE IF b[1] = 0 THEN (IF a[1] = 0 THEN NaN ELSE <<Sign(a[1]), 0>>)
    ELSE Rat(a[1] * b[2], a[2] * b[1])

\* a - b, finite operands
Sub(a, b) == Rat(a[1] * b[2] - b[1] * a[2], a[2] * b[2])

\* a + b, finite operands
Add(a, b) == Rat(a[1] * b[2] + b[1] * a[2], a[2] * b[2])

\* a <= b; false when an operand is NaN
Leq(a, b) ==
    IF isNaN(a) \/ isNaN(b) THEN FALSE
    ELSE IF ~IsFinite(a) THEN (a[1] < 0 \/ a = b)
    ELSE IF ~IsFinite(b) THEN b[1] > 0
    ELSE a[1] * b[2] <= b[1] * a[2]

\* a > 0: a finite positive number or +Infinity
Positive(a) == a[1] > 0

RECURSIVE ISqrtIn(_, _, _)
ISqrtIn(n, lo, hi) ==
    IF lo >= hi THEN lo
    ELSE LET mid == (lo + hi + 1) \div 2
         IN  IF mid * mid <= n THEN ISqrtIn(n, mid, hi) ELSE ISqrtIn(n, lo, mid - 1)

\* the integer square root of n >= 0
ISqrt(n) == ISqrtIn(n, 0, IF n > 46340 THEN 46340 ELSE n)

\* Math.sqrt of a finite a >= 0 whose numerator and denominator are squares
Sqrt(a) == Rat(ISqrt(a[1]), ISqrt(a[2]))

(***************************************************************************)
(* THREE.Vector3: <<x, y, z>> of numbers.                                  *)
(***************************************************************************)
Vec(x, y, z) == <<Num(x), Num(y), Num(z)>>

\* v.multiplyScalar(s)
ScaleVec(v, s) == <<Mul(v[1], s), Mul(v[2], s), Mul(v[3], s)>>

\* |p - q|^2
DistanceToSquared(p, q) ==
    LET dx == Sub(p[1], q[1])
        dy == Sub(p[2], q[2])
        dz == Sub(p[3], q[3])
    IN  Add(Add(Mul(dx, dx), Mul(dy, dy)), Mul(dz, dz))

\* p.distanceTo(q)
DistanceTo(p, q) == Sqrt(DistanceToSquared(p, q))


(***************************************************************************)
(* Strings typed into the calibration input are sequences of characters.   *)
(***************************************************************************)
Digits == <<"0", "1", "2", "3", "4", "5", "6", "7", "8", "9">>

IsDigit(c) == \E i \in 1..10 : Digits[i] = c

DigitVal(c) == (CHOOSE i \in 1..10 : Digits[i] = c) - 1

RECURSIVE DigitRun(_, _)
\* the number of consecutive digits of s from position i on
DigitRun(s, i) ==
    IF i <= Len(s) /\ IsDigit(s[i]) THEN 1 + DigitRun(s, i + 1) ELSE 0

RECURSIVE DigitsValue(_, _, _)
\* the value of the n digits of s that start at position i, after acc
DigitsValue(s, i, n) ==
    IF n = 0 THEN 0 ELSE DigitsValue(s, i, n - 1) * 10 + DigitVal(s[i + n - 1])

RECURSIVE Pow10(_)
Pow10(n) == IF n = 0 THEN 1 ELSE 10 * Pow10(n - 1)

\* parseFloat(s): the longest prefix [+-]digits[.digits] (or [+-].digits) of
\* s as a number, NaN when there is none; exponents, "Infinity" and leading
\* blanks do not occur in the strings of this model
parseFloat(s) ==
    LET signed == Len(s) > 0 /\ s[1] \in {"-", "+"}
        start == IF signed THEN 2 ELSE 1
        nInt == DigitRun(s, start)
        dot == start + nInt
        hasDot == dot <= Len(s) /\ s[dot] = "."
        nFrac == IF hasDot THEN DigitRun(s, dot + 1) ELSE 0
        mag == Rat(DigitsValue(s, start, nInt) * Pow10(nFrac)
                     + DigitsValue(s, dot + 1, nFrac), Pow10(nFrac))
    IN  IF nInt = 0 /\ nFrac = 0 THEN NaN
        ELSE IF signed /\ s[1] = "-" THEN Rat(-mag[1], mag[2]) ELSE mag

(***************************************************************************)
(* Values of the state.                                                    *)
(***************************************************************************)
Null == "null"

\* no export of the format has run yet
NoDocument == << >>

\* response.text and what JSON.parse makes of it: the text is empty, no JSON
\* ("garbage") or JSON, bare or inside a markdown code fence; data is the
\* kind of the parsed value; primitives is the kind of data.primitives and
\* items its elements when it is an array.  An element is given by the fields
\* it has and by its type, "" when it has none.
Payload(text, fenced, data, primitives, items) ==
    [text |-> text, fenced |-> fenced, data |-> data, primitives |-> primitives,
     items |-> items]

\* the service has returned nothing yet
NoPayload == Payload("none", FALSE, "none", "none", << >>)

\* how a call of generate3DPrimitives ended: not yet, with the ModelData it
\* returned, or with the Error it threw
Outcome(status, message, primitives) ==
    [status |-> status, message |-> message, primitives |-> primitives]

Pending == Outcome("pending", "", << >>)

Tabs == {"upload", "detail", "viewer", "export"}

\* the LOD levels the model selects among (LOD.LOW is left out)
LODs == {"MEDIUM", "HIGH"}

\* the units the model selects among
Units == {"cm", "m"}

\* the demo model of loadTestModel
DemoModel == "demo"

\* the model a successful generate3DPrimitives call returns: a single
\* BOX with position [0, -2, -2], rotation [0, 0, 0] and scale [4, 4, 4]
AiModel == "ai"

\* model.primitives; numbers are written as rationals (1.57 is 157/100)
Primitives(m) ==
    IF m = DemoModel
    THEN << [type |-> "BOX", position |-> Vec(0, 0, 0), rotation |-> Vec(0, 0, 0),
             scale |-> Vec(40, 40, 40), color |-> "#3b82f6"],
            [type |-> "CYLINDER", position |-> Vec(0, 40, 0), rotation |-> Vec(0, 0, 0),
             scale |-> Vec(20, 40, 20), color |-> "#10b981"],
            [type |-> "PYRAMID", position |-> Vec(40, 0, 0),
             rotation |-> <<Num(0), Num(0), Rat(157, 100)>>,
             scale |-> Vec(30, 30, 30), color |-> "#f59e0b"],
            [type |-> "SPHERE", position |-> Vec(-40, 0, 0), rotation |-> Vec(0, 0, 0),
             scale |-> Vec(25, 25, 25), color |-> "#ef4444"] >>
    ELSE IF m = AiModel
    THEN << [type |-> "BOX", position |-> Vec(0, -2, -2), rotation |-> Vec(0, 0, 0),
             scale |-> Vec(4, 4, 4), color |-> "#3b82f6"] >>
    ELSE << >>

\* The vertices of the mesh PrimitiveMesh renders for the unrotated BOX p
\* under the scale s: the corners of boxGeometry(1, 1, 1), scaled by
\* p.scale * s and moved to p.position * s.
BoxMeshVertices(p, s) ==
    LET half == {Rat(-1, 2), Rat(1, 2)}
    IN  { ScaleVec(<<Add(Mul(p.scale[1], ux), p.position[1]),
                     Add(Mul(p.scale[2], uy), p.position[2]),
                     Add(Mul(p.scale[3], uz), p.position[3])>>, s) :
            ux \in half, uy \in half, uz \in half }

\* Surface points of the unscaled model that a pointer event can hit, all on
\* the first primitive (the BOX) and on
\* the X axis.  Demo model: the centres of the BOX faces x = -20 and x = 20.
\* AI model: the end (2,0,0) of the BOX edge that lies on the X axis, which
\* is a mesh vertex, and the point (1,0,0) of that edge.
SurfacePoints(m) ==
    IF m = DemoModel THEN {Vec(-20, 0, 0), Vec(20, 0, 0)}
    ELSE IF m = AiModel THEN {Vec(1, 0, 0), Vec(2, 0, 0)}
    ELSE {}

\* The surface point of the unscaled model over which the pointer hovers.
HoverPoints(m) ==
    IF m = DemoModel THEN {Vec(20, 0, 0)}
    ELSE IF m = AiModel THEN {Vec(1, 0, 0)}
    ELSE {}

\* What the user can type into the calibration input.
InputStrings ==
    { <<>>, <<"0">>, <<"-", "2">>, <<"1">>, <<"2">> }

VARIABLES
    \* App state (useState in App)
    activeTab, images, lod, unit, model, globalScale, isProcessing, error,
    notification,
    \* App: prevLodRef.current
    prevLodRef,
    \* the generate3DPrimitives promises not yet settled
    inflight,
    \* Viewer3D state (useState in Viewer3D)
    isMeasureMode, points, tempPoint, userInputValue,
    \* history: how the handler that ran last ended, when it was
    \* applyCalibration ("accepted", "rejected"), and "none" otherwise
    lastConfirm,
    \* history: globalScale before the handler that ran last
    scaleBefore,
    \* history: the globalScale prop under which each point of points was hit
    pickScale,
    \* an export under check: state.model.primitives and state.globalScale when
    \* handleExport runs
    exportModel, exportScale,
    \* the results of exportToOBJ(scaledModel) and exportToDXF(scaledModel)
    obj, dxf,
    \* history: what getPrimitiveGeometry returned for each primitive of
    \* scaledModel in the export that ran last
    meshes,
    \* a call of generate3DPrimitives under check: response.text as the
    \* service returned it, and how the call ended
    payload, generated

appVars == <<activeTab, images, lod, unit, model, globalScale, isProcessing,
             error, notification, prevLodRef, inflight>>

viewerVars == <<isMeasureMode, points, tempPoint, userInputValue, pickScale>>

exportVars == <<exportModel, exportScale, obj, dxf, meshes>>

serviceVars == <<payload, generated>>

vars == <<appVars, viewerVars, lastConfirm, scaleBefore, exportVars, serviceVars>>

(***************************************************************************)
(* Rendering.                                                              *)
(***************************************************************************)
\* App renders <Viewer3D> only on the viewer tab, when no request is being
\* processed, no error is shown and a model exists.
ViewerMounted ==
    activeTab = "viewer" /\ ~isProcessing /\ error = Null /\ model # Null

\* The initial state of a Viewer3D instance.
ViewerInit ==
    /\ isMeasureMode = FALSE
    /\ points = <<>>
    /\ tempPoint = Null
    /\ userInputValue = <<>>
    /\ pickScale = <<>>

\* After an update of the App state: a Viewer3D that stays rendered keeps its
\* state, one that is no longer rendered is unmounted and its state is lost
\* (a later mount starts from ViewerInit).
ViewerRerender ==
    IF ViewerMounted'
    THEN UNCHANGED viewerVars
    ELSE /\ isMeasureMode' = FALSE
         /\ points' = <<>>
         /\ tempPoint' = Null
         /\ userInputValue' = <<>>
         /\ pickScale' = <<>>

\* the calibration panel (input and confirm button) is rendered
ConfirmOffered == ViewerMounted /\ Len(points) = 2

\* the value the currentDistance memo computes from the points pts
DistanceOfPoints(pts) ==
    IF Len(pts) < 2 THEN Num(0) ELSE DistanceTo(pts[1], pts[2])

\* useMemo currentDistance
currentDistance == DistanceOfPoints(points)

\* the history variables after a handler that ended as outcome; the export
\* under check is not touched
History(outcome) ==
    /\ lastConfirm' = outcome
    /\ scaleBefore' = globalScale
    /\ UNCHANGED exportVars
    /\ UNCHANGED serviceVars

Init ==
    /\ activeTab = "upload"
    /\ images = 0
    /\ lod = "MEDIUM"
    /\ unit = "cm"
    /\ model = Null
    /\ globalScale = Num(1)
    /\ isProcessing = FALSE
    /\ error = Null
    /\ notification = Null
    /\ prevLodRef = "MEDIUM"
    /\ inflight = 0
    /\ ViewerInit
    /\ lastConfirm = "none"
    /\ scaleBefore = Num(1)
    /\ exportModel = <<>>
    /\ exportScale = Num(1)
    /\ obj = NoDocument
    /\ dxf = NoDocument
    /\ meshes = <<>>
    /\ payload = NoPayload
    /\ generated = Pending

(***************************************************************************)
(* App handlers.                                                           *)
(***************************************************************************)
\* the body of processModel once state.images is not empty, up to the await
StartRequest ==
    /\ isProcessing' = TRUE
    /\ error' = Null
    /\ activeTab' = "viewer"
    /\ inflight' = inflight + 1
    /\ UNCHANGED <<images, unit, model, globalScale, notification>>

\* the condition of the LOD effect, for the tab and lod just rendered
LodEffectFires(tab, l) ==
    model # Null /\ tab = "viewer" /\ prevLodRef # l /\ images > 0

\* handleImageUpload with n files, all read
HandleImageUpload(n) ==
    /\ activeTab = "upload"
    /\ images + n <= MaxImages
    /\ images' = images + n
    /\ UNCHANGED <<activeTab, lod, unit, model, globalScale, isProcessing,
                   error, notification, prevLodRef, inflight>>
    /\ ViewerRerender
    /\ History("none")

\* the delete button of an uploaded image
RemoveImage ==
    /\ activeTab = "upload"
    /\ images > 0
    /\ images' = images - 1
    /\ UNCHANGED <<activeTab, lod, unit, model, globalScale, isProcessing,
                   error, notification, prevLodRef, inflight>>
    /\ ViewerRerender
    /\ History("none")

LoadTestModel ==
    /\ activeTab = "upload"
    /\ model' = DemoModel
    /\ globalScale' = Num(1)
    /\ notification' = "info"
    /\ activeTab' = "viewer"
    /\ UNCHANGED <<images, lod, unit, isProcessing, error, prevLodRef, inflight>>
    /\ ViewerRerender
    /\ History("none")

\* processModel from the "Generar modelo" button of the detail tab or the
\* retry button of the viewer tab's error screen
ProcessModel ==
    /\ \/ activeTab = "detail"
       \/ activeTab = "viewer" /\ ~isProcessing /\ error # Null
    /\ inflight < MaxInflight
    /\ IF images = 0
       THEN /\ UNCHANGED appVars
            /\ History("none")
       ELSE /\ StartRequest
            /\ UNCHANGED <<lod, prevLodRef>>
            /\ History("none")
    /\ ViewerRerender

\* generate3DPrimitives resolves
RequestSucceeds ==
    /\ inflight > 0
    /\ inflight' = inflight - 1
    /\ model' = AiModel
    /\ isProcessing' = FALSE
    /\ globalScale' = Num(1)
    /\ UNCHANGED <<activeTab, images, lod, unit, error, notification, prevLodRef>>
    /\ ViewerRerender
    /\ History("none")

\* the catch branch of processModel resetting globalScale as the try branch does
RequestFails_ResetsScale ==
    /\ inflight > 0
    /\ inflight' = inflight - 1
    /\ isProcessing' = FALSE
    /\ error' = "message"
    /\ globalScale' = Num(1)
    /\ UNCHANGED <<activeTab, images, lod, unit, model, notification, prevLodRef>>
    /\ ViewerRerender
    /\ History("none")

\* the catch branch of processModel dropping the model
RequestFails_ClearsModel ==
    /\ inflight > 0
    /\ inflight' = inflight - 1
    /\ isProcessing' = FALSE
    /\ error' = "message"
    /\ model' = Null
    /\ UNCHANGED <<activeTab, images, lod, unit, globalScale,
                   notification, prevLodRef>>
    /\ ViewerRerender
    /\ History("none")

\* generate3DPrimitives rejects
RequestFails ==
    /\ inflight > 0
    /\ inflight' = inflight - 1
    /\ isProcessing' = FALSE
    /\ error' = "message"
    /\ UNCHANGED <<activeTab, images, lod, unit, model, globalScale,
                   notification, prevLodRef>>
    /\ ViewerRerender
    /\ History("none")

\* a LOD card of the detail tab, then the LOD effect
SetLod(l) ==
    /\ activeTab = "detail"
    /\ lod' = l
    /\ prevLodRef' = l
    /\ IF LodEffectFires(activeTab, l)
       THEN StartRequest
       ELSE UNCHANGED <<activeTab, images, unit, model, globalScale,
                        isProcessing, error, notification, inflight>>
    /\ ViewerRerender
    /\ History("none")

\* a tab button, then the LOD effect
SetActiveTab(t) ==
    /\ t # activeTab
    /\ prevLodRef' = lod
    /\ lod' = lod
    /\ IF LodEffectFires(t, lod)
       THEN StartRequest
       ELSE /\ activeTab' = t
            /\ UNCHANGED <<images, unit, model, globalScale, isProcessing,
                           error, notification, inflight>>
    /\ ViewerRerender
    /\ History("none")

\* handleExport showing the success notification after the try block
HandleExport_AlwaysSuccess(ok) ==
    /\ activeTab = "export"
    /\ IF model = Null
       THEN /\ notification' = notification
            /\ History("none")
       ELSE /\ notification' = "success"
            /\ History("none")
    /\ UNCHANGED <<activeTab, images, lod, unit, model, globalScale,
                   isProcessing, error, prevLodRef, inflight>>
    /\ ViewerRerender

\* handleExport; ok: exportToOBJ/exportToDXF and downloadFile did not throw
HandleExport(ok) ==
    /\ activeTab = "export"
    /\ IF model = Null
       THEN /\ notification' = notification
            /\ History("none")
       ELSE IF ok
       THEN /\ notification' = "success"
            /\ History("none")
       ELSE /\ notification' = "error"
            /\ History("none")
    /\ UNCHANGED <<activeTab, images, lod, unit, model, globalScale,
                   isProcessing, error, prevLodRef, inflight>>
    /\ ViewerRerender

\* the notification's timer or its close button
DismissNotification ==
    /\ notification # Null
    /\ notification' = Null
    /\ UNCHANGED <<activeTab, images, lod, unit, model, globalScale,
                   isProcessing, error, prevLodRef, inflight>>
    /\ ViewerRerender
    /\ History("none")

handleScaleChange(newScale) ==
    /\ globalScale' = newScale
    /\ notification' = "success"

(***************************************************************************)
(* Viewer3D handlers (the component is rendered).                          *)
(***************************************************************************)
\* onUnitChange from the unit select
OnUnitChange(u) ==
    /\ ViewerMounted
    /\ u # unit
    /\ unit' = u
    /\ UNCHANGED <<activeTab, images, lod, model, globalScale, isProcessing,
                   error, notification, prevLodRef, inflight>>
    /\ UNCHANGED viewerVars
    /\ History("none")

\* the measure button without setPoints([])
ToggleMeasure_KeepsPoints ==
    /\ ViewerMounted
    /\ isMeasureMode' = ~isMeasureMode
    /\ tempPoint' = Null
    /\ UNCHANGED <<points, pickScale, userInputValue, appVars>>
    /\ History("none")

\* the measure button: "MEDIR PARA ESCALAR" / "CANCELAR MEDICION"
ToggleMeasure ==
    /\ ViewerMounted
    /\ isMeasureMode' = ~isMeasureMode
    /\ points' = <<>>
    /\ pickScale' = <<>>
    /\ tempPoint' = Null
    /\ UNCHANGED <<userInputValue, appVars>>
    /\ History("none")

\* e.point of a pointer event on the surface point m of a primitive: the mesh
\* is rendered with position and scale multiplied by globalScale.  (The
\* translation by which <Stage center> moves the whole scene is left out; it
\* is the same for all points hit under one scale.)
EventPoint(m) == ScaleVec(m, globalScale)

\* handlePointSelect putting the new point first
handlePointSelect_Prepend(point) ==
    LET newPoints == IF Len(points) >= 2 THEN <<point>> ELSE <<point>> \o points
    IN  /\ points' = newPoints
        /\ pickScale' = IF Len(points) >= 2 THEN <<globalScale>>
                        ELSE <<globalScale>> \o pickScale
        /\ tempPoint' = IF Len(newPoints) = 2 THEN Null ELSE tempPoint

\* handlePointSelect dropping only the older of two recorded points
handlePointSelect_Sliding(point) ==
    LET newPoints == IF Len(points) >= 2 THEN <<points[2], point>>
                     ELSE Append(points, point)
    IN  /\ points' = newPoints
        /\ pickScale' = IF Len(points) >= 2 THEN <<pickScale[2], globalScale>>
                        ELSE Append(pickScale, globalScale)
        /\ tempPoint' = IF Len(newPoints) = 2 THEN Null ELSE tempPoint

\* handlePointSelect(point)
handlePointSelect(point) ==
    LET newPoints == IF Len(points) >= 2 THEN <<point>> ELSE Append(points, point)
    IN  /\ points' = newPoints
        /\ pickScale' = IF Len(points) >= 2 THEN <<globalScale>>
                        ELSE Append(pickScale, globalScale)
        /\ tempPoint' = IF Len(newPoints) = 2 THEN Null ELSE tempPoint

\* onPointerDown recording the pick whether or not measure mode is on
PointerDown_IgnoresMode(m) ==
    /\ ViewerMounted
    /\ m \in SurfacePoints(model)
    /\ handlePointSelect(EventPoint(m))
    /\ History("none")
    /\ UNCHANGED <<isMeasureMode, userInputValue, appVars>>

\* onPointerDown of a PrimitiveMesh at the surface point m
PointerDown(m) ==
    /\ ViewerMounted
    /\ m \in SurfacePoints(model)
    /\ IF ~isMeasureMode
       THEN /\ UNCHANGED <<points, pickScale, tempPoint>>
            /\ History("none")
       ELSE /\ handlePointSelect(EventPoint(m))
            /\ History("none")
    /\ UNCHANGED <<isMeasureMode, userInputValue, appVars>>

\* onPointerMove of a PrimitiveMesh at the surface point m, in measure mode
PointerMove(m) ==
    /\ ViewerMounted
    /\ isMeasureMode
    /\ m \in HoverPoints(model)
    /\ tempPoint' = EventPoint(m)
    /\ UNCHANGED <<isMeasureMode, points, pickScale, userInputValue, appVars>>
    /\ History("none")

\* onPointerMissed of the Canvas
PointerMissed ==
    /\ ViewerMounted
    /\ tempPoint # Null
    /\ tempPoint' = Null
    /\ UNCHANGED <<isMeasureMode, points, pickScale, userInputValue, appVars>>
    /\ History("none")

\* onChange of the calibration input, rendered when two points are recorded
TypeInput(v) ==
    /\ ConfirmOffered
    /\ v # userInputValue
    /\ userInputValue' = v
    /\ UNCHANGED <<isMeasureMode, points, pickScale, tempPoint, appVars>>
    /\ History("none")

\* applyCalibration with the measured distance not divided by the scale
NewScale_Compounding(targetVal, distance, scale) ==
    Div(targetVal, distance)

\* applyCalibration with the quotient taken the wrong way round
NewScale_Inverted(targetVal, distance, scale) ==
    Div(Div(distance, scale), targetVal)

\* the scale applyCalibration passes to onScaleChange
NewScale(targetVal, distance, scale) ==
    LET rawDistance == Div(distance, scale)
    IN  Div(targetVal, rawDistance)

\* the guard of applyCalibration with targetVal < 0 in place of targetVal <= 0
CalibrationRejected_ZeroAccepted(targetVal, distance) ==
    isNaN(targetVal) \/ ~Leq(Num(0), targetVal) \/ distance = Num(0)

\* the guard of applyCalibration without the check of the sign
CalibrationRejected_NoSign(targetVal, distance) ==
    isNaN(targetVal) \/ targetVal = Num(0) \/ distance = Num(0)

\* the guard of applyCalibration
CalibrationRejected(targetVal, distance) ==
    isNaN(targetVal) \/ Leq(targetVal, Num(0)) \/ distance = Num(0)

\* applyCalibration, from the confirm button rendered when two points are
\* recorded
ApplyCalibration ==
    /\ ConfirmOffered
    /\ LET targetVal == parseFloat(userInputValue)
       IN  IF CalibrationRejected(targetVal, currentDistance)
           THEN /\ UNCHANGED <<viewerVars, appVars>>
                /\ History("rejected")
           ELSE /\ handleScaleChange(NewScale(targetVal, currentDistance, globalScale))
                /\ points' = <<>>
                /\ pickScale' = <<>>
                /\ userInputValue' = <<>>
                /\ isMeasureMode' = FALSE
                /\ UNCHANGED <<tempPoint, activeTab, images, lod, unit, model,
                               isProcessing, error, prevLodRef, inflight>>
                /\ History("accepted")

(***************************************************************************)
(* Export (src/utils/exportUtils.ts, lines 1-192): angles.                 *)
(***************************************************************************)
\* the angle n * Math.PI / d
PiTimes(n, d) == <<"pi", Rat(n, d)[1], Rat(n, d)[2]>>

\* 1000 * cos(k * pi / 24) for k = 0 .. 12, rounded to an integer: the
\* cosines that are not rational are kept to three decimals
CosTable == <<1000, 991, 966, 924, 866, 793, 707, 609, 500, 383, 259, 131, 0>>

\* cos(i * pi / 24), i in 0 .. 47
Cos24(i) ==
    IF i <= 12 THEN Rat(CosTable[i + 1], 1000)
    ELSE IF i <= 24 THEN Rat(-CosTable[24 - i + 1], 1000)
    ELSE IF i <= 36 THEN Rat(-CosTable[i - 24 + 1], 1000)
    ELSE Rat(CosTable[48 - i + 1], 1000)

\* Math.cos(a) for the angles of the model: multiples of pi / 24, 0 and 1.57
Cos(a) ==
    IF Len(a) = 3 THEN Cos24((a[2] * (24 \div a[3])) % 48)
    ELSE IF a = Num(0) THEN Num(1)
    ELSE IF a = Rat(157, 100) THEN Rat(1, 1000)
    ELSE NaN

\* Math.sin(a) for the angles of the model
Sin(a) ==
    IF Len(a) = 3 THEN Cos24((a[2] * (24 \div a[3]) + 36) % 48)
    ELSE IF a = Num(0) THEN Num(0)
    ELSE IF a = Rat(157, 100) THEN Num(1)
    ELSE NaN

(***************************************************************************)
(* Export: transform and tessellation.                                     *)
(***************************************************************************)
\* transformVertex with the rotation about Z applied before the one about Y
transformVertex_ZBeforeY(v, p) ==
    LET x0 == Mul(v[1], p.scale[1])
        y0 == Mul(v[2], p.scale[2])
        z0 == Mul(v[3], p.scale[3])
        rx == p.rotation[1]
        ry == p.rotation[2]
        rz == p.rotation[3]
        y1 == Sub(Mul(y0, Cos(rx)), Mul(z0, Sin(rx)))
        z1 == Add(Mul(y0, Sin(rx)), Mul(z0, Cos(rx)))
        x3 == Sub(Mul(x0, Cos(rz)), Mul(y1, Sin(rz)))
        y3 == Add(Mul(x0, Sin(rz)), Mul(y1, Cos(rz)))
        x2 == Add(Mul(x3, Cos(ry)), Mul(z1, Sin(ry)))
        z2 == Add(Mul(Mul(Num(-1), x3), Sin(ry)), Mul(z1, Cos(ry)))
    IN  <<Add(x2, p.position[1]), Add(y3, p.position[2]), Add(z2, p.position[3])>>

\* transformVertex(v, p)
transformVertex(v, p) ==
    LET x0 == Mul(v[1], p.scale[1])
        y0 == Mul(v[2], p.scale[2])
        z0 == Mul(v[3], p.scale[3])
        rx == p.rotation[1]
        ry == p.rotation[2]
        rz == p.rotation[3]
        \* Rotation X
        y1 == Sub(Mul(y0, Cos(rx)), Mul(z0, Sin(rx)))
        z1 == Add(Mul(y0, Sin(rx)), Mul(z0, Cos(rx)))
        \* Rotation Y
        x2 == Add(Mul(x0, Cos(ry)), Mul(z1, Sin(ry)))
        z2 == Add(Mul(Mul(Num(-1), x0), Sin(ry)), Mul(z1, Cos(ry)))
        \* Rotation Z
        x3 == Sub(Mul(x2, Cos(rz)), Mul(y1, Sin(rz)))
        y3 == Add(Mul(x2, Sin(rz)), Mul(y1, Cos(rz)))
    IN  <<Add(x3, p.position[1]), Add(y3, p.position[2]), Add(z2, p.position[3])>>

\* the vertex <<x/2, y/2, z/2>>
HalfVec(x, y, z) == <<Rat(x, 2), Rat(y, 2), Rat(z, 2)>>

\* the eight corners getPrimitiveGeometry lists for a BOX
BoxUnitVertices ==
    << HalfVec(-1, -1, -1), HalfVec(1, -1, -1), HalfVec(1, 1, -1), HalfVec(-1, 1, -1),
       HalfVec(-1, -1, 1), HalfVec(1, -1, 1), HalfVec(1, 1, 1), HalfVec(-1, 1, 1) >>

\* const segments = 16
segments == 16

\* const latR = 8
latR == 8

\* const lonR = 12
lonR == 12

\* the vertices getPrimitiveGeometry hands to transformVertex for the kind
\* type, in the order of the pushes
UnitVertices(type) ==
    IF type = "BOX" THEN BoxUnitVertices
    ELSE IF type = "CYLINDER"
    THEN [j \in 1..(2 * segments + 2) |->
            LET i == (j - 1) % segments
                a == PiTimes(2 * i, segments)
            IN  IF j <= segments
                THEN <<Mul(Rat(1, 2), Cos(a)), Rat(-1, 2), Mul(Rat(1, 2), Sin(a))>>
                ELSE IF j <= 2 * segments
                THEN <<Mul(Rat(1, 2), Cos(a)), Rat(1, 2), Mul(Rat(1, 2), Sin(a))>>
                ELSE IF j = 2 * segments + 1 THEN HalfVec(0, -1, 0)
                ELSE HalfVec(0, 1, 0)]
    ELSE IF type = "PYRAMID"
    THEN << HalfVec(-1, -1, -1), HalfVec(1, -1, -1), HalfVec(1, -1, 1),
            HalfVec(-1, -1, 1), HalfVec(0, 1, 0) >>
    ELSE IF type = "SPHERE"
    THEN [j \in 1..((latR + 1) * (lonR + 1)) |->
            LET lat == (j - 1) \div (lonR + 1)
                lon == (j - 1) % (lonR + 1)
                th == PiTimes(lat, latR)
                ph == PiTimes(lon * 2, lonR)
                sTh == Sin(th)
                cTh == Cos(th)
            IN  <<Mul(Mul(Rat(1, 2), Cos(ph)), sTh), Mul(Rat(1, 2), cTh),
                  Mul(Mul(Rat(1, 2), Sin(ph)), sTh)>>]
    ELSE << HalfVec(-1, -1, -1), HalfVec(1, 1, 1) >>

\* the faces with both fans of a cylinder at the bottom center
Faces_OneCap(type) ==
    IF type = "BOX"
    THEN << <<0, 1, 2, 3>>, <<4, 7, 6, 5>>, <<0, 4, 5, 1>>, <<1, 5, 6, 2>>,
            <<2, 6, 7, 3>>, <<3, 7, 4, 0>> >>
    ELSE IF type = "CYLINDER"
    THEN [j \in 1..(3 * segments) |->
            LET i == (j - 1) \div 3
                n == (i + 1) % segments
                bC == 2 * segments
                tC == 2 * segments + 1
            IN  IF (j - 1) % 3 = 0 THEN <<i, n, n + segments, i + segments>>
                ELSE <<i, bC, n>>]
    ELSE IF type = "PYRAMID"
    THEN << <<0, 1, 2, 3>>, <<0, 4, 1>>, <<1, 4, 2>>, <<2, 4, 3>>, <<3, 4, 0>> >>
    ELSE IF type = "SPHERE"
    THEN [j \in 1..(latR * lonR) |->
            LET lat == (j - 1) \div lonR
                lon == (j - 1) % lonR
                f == lat * (lonR + 1) + lon
                sq == f + lonR + 1
            IN  <<f, sq, sq + 1, f + 1>>]
    ELSE << >>

\* the faces with quads below the last ring of a sphere as well
Faces_ExtraRing(type) ==
    IF type = "BOX"
    THEN << <<0, 1, 2, 3>>, <<4, 7, 6, 5>>, <<0, 4, 5, 1>>, <<1, 5, 6, 2>>,
            <<2, 6, 7, 3>>, <<3, 7, 4, 0>> >>
    ELSE IF type = "CYLINDER"
    THEN [j \in 1..(3 * segments) |->
            LET i == (j - 1) \div 3
                n == (i + 1) % segments
                bC == 2 * segments
                tC == 2 * segments + 1
            IN  IF (j - 1) % 3 = 0 THEN <<i, n, n + segments, i + segments>>
                ELSE IF (j - 1) % 3 = 1 THEN <<i, bC, n>>
                ELSE <<i + segments, n + segments, tC>>]
    ELSE IF type = "PYRAMID"
    THEN << <<0, 1, 2, 3>>, <<0, 4, 1>>, <<1, 4, 2>>, <<2, 4, 3>>, <<3, 4, 0>> >>
    ELSE IF type = "SPHERE"
    THEN [j \in 1..((latR + 1) * lonR) |->
            LET lat == (j - 1) \div lonR
                lon == (j - 1) % lonR
                f == lat * (lonR + 1) + lon
                sq == f + lonR + 1
            IN  <<f, sq, sq + 1, f + 1>>]
    ELSE << >>

\* the faces getPrimitiveGeometry pushes for the kind type: 0-based indices
\* into the vertices of the primitive
Faces(type) ==
    IF type = "BOX"
    THEN << <<0, 1, 2, 3>>, <<4, 7, 6, 5>>, <<0, 4, 5, 1>>, <<1, 5, 6, 2>>,
            <<2, 6, 7, 3>>, <<3, 7, 4, 0>> >>
    ELSE IF type = "CYLINDER"
    THEN [j \in 1..(3 * segments) |->
            LET i == (j - 1) \div 3
                n == (i + 1) % segments
                bC == 2 * segments
                tC == 2 * segments + 1
            IN  IF (j - 1) % 3 = 0 THEN <<i, n, n + segments, i + segments>>
                ELSE IF (j - 1) % 3 = 1 THEN <<i, bC, n>>
                ELSE <<i + segments, n + segments, tC>>]
    ELSE IF type = "PYRAMID"
    THEN << <<0, 1, 2, 3>>, <<0, 4, 1>>, <<1, 4, 2>>, <<2, 4, 3>>, <<3, 4, 0>> >>
    ELSE IF type = "SPHERE"
    THEN [j \in 1..(latR * lonR) |->
            LET lat == (j - 1) \div lonR
                lon == (j - 1) % lonR
                f == lat * (lonR + 1) + lon
                sq == f + lonR + 1
            IN  <<f, sq, sq + 1, f + 1>>]
    ELSE << >>

\* getPrimitiveGeometry(p)
getPrimitiveGeometry(p) ==
    [vertices |-> [j \in 1..Len(UnitVertices(p.type)) |->
                     transformVertex(UnitVertices(p.type)[j], p)],
     faces |-> Faces(p.type)]

(***************************************************************************)
(* Export: colors.  A color is the sequence of its characters.             *)
(***************************************************************************)
HexDigits == <<"0", "1", "2", "3", "4", "5", "6", "7", "8", "9",
               "a", "b", "c", "d", "e", "f">>

UpperHexDigits == <<"0", "1", "2", "3", "4", "5", "6", "7", "8", "9",
                    "A", "B", "C", "D", "E", "F">>

IsHexDigit(c) == \E i \in 1..16 : HexDigits[i] = c \/ UpperHexDigits[i] = c

HexVal(c) == (CHOOSE i \in 1..16 : HexDigits[i] = c \/ UpperHexDigits[i] = c) - 1

\* hex.slice(from, to) for 0 <= from <= to
Slice(str, from, to) ==
    LET upto == IF to > Len(str) THEN Len(str) ELSE to
    IN  IF from >= upto THEN <<>> ELSE SubSeq(str, from + 1, upto)

RECURSIVE HexRun(_, _)
\* the number of consecutive hexadecimal digits of str from position i on
HexRun(str, i) ==
    IF i <= Len(str) /\ IsHexDigit(str[i]) THEN 1 + HexRun(str, i + 1) ELSE 0

RECURSIVE HexValue(_, _, _)
\* the value of the n hexadecimal digits of str that start at position i
HexValue(str, i, n) ==
    IF n = 0 THEN 0 ELSE HexValue(str, i, n - 1) * 16 + HexVal(str[i + n - 1])

RECURSIVE Blanks(_, _)
\* the number of consecutive blanks of str from position i on
Blanks(str, i) ==
    IF i <= Len(str) /\ str[i] = " " THEN 1 + Blanks(str, i + 1) ELSE 0

\* parseInt(str, 16): after leading blanks, an optional sign and an optional
\* 0x, the longest run of hexadecimal digits as a number; NaN when it is empty
parseInt16(str) ==
    LET first == 1 + Blanks(str, 1)
        signed == first <= Len(str) /\ str[first] \in {"-", "+"}
        afterSign == IF signed THEN first + 1 ELSE first
        prefixed == /\ afterSign + 1 <= Len(str)
                    /\ str[afterSign] = "0"
                    /\ str[afterSign + 1] \in {"x", "X"}
        start == IF prefixed THEN afterSign + 2 ELSE afterSign
        n == HexRun(str, start)
        mag == HexValue(str, start, n)
    IN  IF n = 0 THEN NaN
        ELSE IF signed /\ str[first] = "-" THEN Num(-mag) ELSE Num(mag)

\* a || 0 for a number a
OrZero(a) == IF isNaN(a) \/ a = Num(0) THEN Num(0) ELSE a

\* hexToACI(hex)
hexToACI(hex) ==
    LET r == OrZero(parseInt16(Slice(hex, 1, 3)))[1]
        g == OrZero(parseInt16(Slice(hex, 3, 5)))[1]
        b == OrZero(parseInt16(Slice(hex, 5, 7)))[1]
    IN  IF r > 180 /\ g < 100 /\ b < 100 THEN 1
        ELSE IF r > 180 /\ g > 180 /\ b < 100 THEN 2
        ELSE IF g > 180 /\ r < 100 /\ b < 100 THEN 3
        ELSE IF g > 180 /\ b > 180 /\ r < 100 THEN 4
        ELSE IF b > 180 /\ r < 100 /\ g < 100 THEN 5
        ELSE IF r > 180 /\ b > 180 /\ g < 100 THEN 6
        ELSE 7

(***************************************************************************)
(* Export: number formatting.                                              *)
(***************************************************************************)
RECURSIVE FloorDigits(_, _, _)
\* <<floor(r * 10^k / d), the remainder>> for 0 <= r < d, by long division
FloorDigits(r, d, k) ==
    IF k = 0 THEN <<0, r>>
    ELSE LET prev == FloorDigits(r, d, k - 1)
         IN  <<prev[1] * 10 + (prev[2] * 10) \div d, (prev[2] * 10) % d>>

\* a.toFixed(digits) for a finite a: the text [-]int.frac with digits decimals,
\* rounded half away from zero, as the record of its sign, integer part and
\* decimals
toFixed(a, digits) ==
    LET n == Abs(a[1])
        d == a[2]
        fl == FloorDigits(n % d, d, digits)
        up == 2 * fl[2] >= d
        frac == IF up THEN fl[1] + 1 ELSE fl[1]
        carry == frac = Pow10(digits)
    IN  [neg |-> a[1] < 0,
         int |-> IF carry THEN n \div d + 1 ELSE n \div d,
         frac |-> IF carry THEN 0 ELSE frac]

\* the three coordinates of v, each with toFixed(6)
FixedVec(v) == <<toFixed(v[1], 6), toFixed(v[2], 6), toFixed(v[3], 6)>>

(***************************************************************************)
(* Export: the documents.  A document is kept as the sequence of its        *)
(* lines (OBJ) or of its records by section (DXF); a formatted number is    *)
(* kept as toFixed returns it.                                              *)
(***************************************************************************)
\* handleExport: scaledModel.primitives
ScaledModel_KeepsPosition(primitives, scale) ==
    [i \in 1..Len(primitives) |->
       [primitives[i] EXCEPT !.scale = ScaleVec(@, scale)]]

ScaledModel(primitives, scale) ==
    [i \in 1..Len(primitives) |->
       [primitives[i] EXCEPT !.position = ScaleVec(@, scale),
                             !.scale = ScaleVec(@, scale)]]

\* a face line whose indices start at 1 in every group
ObjFaceLine_Local(f, vOffset) ==
    [kind |-> "f", idx |-> [k \in 1..Len(f) |-> f[k] + 1]]

\* a face line of exportToOBJ for the face f of a primitive
ObjFaceLine(f, vOffset) ==
    IF Len(f) = 3
    THEN [kind |-> "f", idx |-> <<f[1] + vOffset, f[2] + vOffset, f[3] + vOffset>>]
    ELSE [kind |-> "f",
          idx |-> <<f[1] + vOffset, f[2] + vOffset, f[3] + vOffset, f[4] + vOffset>>]

RECURSIVE ObjBody(_, _, _)
\* exportToOBJ: the forEach over model.primitives from the primitive at
\* position pos (index pos - 1) on, entered with the running vOffset
ObjBody(primitives, pos, vOffset) ==
    IF pos > Len(primitives) THEN << >>
    ELSE LET p == primitives[pos]
             i == pos - 1
             geo == getPrimitiveGeometry(p)
         IN  << [kind |-> ""],
                [kind |-> "g", name |-> <<"Pieza", i + 1, p.type>>] >>
             \o [j \in 1..Len(geo.vertices) |->
                   [kind |-> "v", xyz |-> FixedVec(geo.vertices[j])]]
             \o [j \in 1..Len(geo.faces) |-> ObjFaceLine(geo.faces[j], vOffset)]
             \o ObjBody(primitives, pos + 1, vOffset + Len(geo.vertices))

\* an exporter that leaves out the primitives of scale zero
exportToOBJ_SkipsZeroScale(primitives) ==
    LET Solid(p) == p.scale # Vec(0, 0, 0)
    IN  << [kind |-> "#", text |-> "GeoImage Export - High Fidelity BIM Mesh"] >>
        \o ObjBody(SelectSeq(primitives, Solid), 1, 1)

\* exportToOBJ(model)
exportToOBJ(primitives) ==
    << [kind |-> "#", text |-> "GeoImage Export - High Fidelity BIM Mesh"] >>
    \o ObjBody(primitives, 1, 1)

\* a 3DFACE with the winding of its first three corners reversed
create3DFace_Reversed(v1, v2, v3, v4, layer, color) ==
    LET p4 == IF v4 = Null THEN v1 ELSE v4
    IN  [kind |-> "3DFACE", layer |-> layer, color |-> color,
         corners |-> <<FixedVec(v3), FixedVec(v2), FixedVec(v1), FixedVec(p4)>>]

\* create3DFace(v1, v2, v3, v4, layer, color); v4 is Null for undefined
create3DFace(v1, v2, v3, v4, layer, color) ==
    LET p4 == IF v4 = Null THEN v3 ELSE v4
    IN  [kind |-> "3DFACE", layer |-> layer, color |-> color,
         corners |-> <<FixedVec(v1), FixedVec(v2), FixedVec(v3), FixedVec(p4)>>]

\* 3DFACE entities tagged with the 0-based index of the primitive
DxfFaces_ZeroBasedLayer(primitives, pos) ==
    LET p == primitives[pos]
        idx == pos - 1
        geo == getPrimitiveGeometry(p)
    IN  [j \in 1..Len(geo.faces) |->
           LET f == geo.faces[j]
           IN  create3DFace(geo.vertices[f[1] + 1], geo.vertices[f[2] + 1],
                            geo.vertices[f[3] + 1],
                            IF Len(f) > 3 THEN geo.vertices[f[4] + 1] ELSE Null,
                            <<"PIEZA", idx>>, hexToACI(p.color))]

\* the 3DFACE entities of the quads alone
DxfFaces_QuadsOnly(primitives, pos) ==
    LET p == primitives[pos]
        geo == getPrimitiveGeometry(p)
        IsQuad(f) == Len(f) = 4
        quads == SelectSeq(geo.faces, IsQuad)
    IN  [j \in 1..Len(quads) |->
           create3DFace(geo.vertices[quads[j][1] + 1], geo.vertices[quads[j][2] + 1],
                        geo.vertices[quads[j][3] + 1], geo.vertices[quads[j][4] + 1],
                        <<"PIEZA", (pos - 1) + 1>>, hexToACI(p.color))]

\* exportToDXF: the 3DFACE entities of the primitive at position pos
DxfFaces(primitives, pos) ==
    LET p == primitives[pos]
        idx == pos - 1
        layer == <<"PIEZA", idx + 1>>
        color == hexToACI(p.color)
        geo == getPrimitiveGeometry(p)
    IN  [j \in 1..Len(geo.faces) |->
           LET f == geo.faces[j]
           IN  create3DFace(geo.vertices[f[1] + 1], geo.vertices[f[2] + 1],
                            geo.vertices[f[3] + 1],
                            IF Len(f) > 3 THEN geo.vertices[f[4] + 1] ELSE Null,
                            layer, color)]

RECURSIVE DxfEntities(_, _)
\* exportToDXF: the second forEach over model.primitives, from position pos on
DxfEntities(primitives, pos) ==
    IF pos > Len(primitives) THEN << >>
    ELSE DxfFaces(primitives, pos) \o DxfEntities(primitives, pos + 1)

\* exportToDXF(model): the HEADER section, the LAYER table of the TABLES
\* section (its header and its records) and the ENTITIES section
exportToDXF(primitives) ==
    [acadver |-> "AC1009",
     layerTable |-> [maxEntries |-> 10,
                     records |-> [pos \in 1..Len(primitives) |->
                                    [kind |-> "LAYER",
                                     name |-> <<"PIEZA", (pos - 1) + 1>>,
                                     flags |-> 64, color |-> 7,
                                     linetype |-> "CONTINUOUS"]]],
     entities |-> DxfEntities(primitives, 1)]

(***************************************************************************)
(* Export: the models under check.                                         *)
(***************************************************************************)
MaxPrimitives == 2

Quarter == PiTimes(1, 2)

\* primitives a model can hold (types.ts: Primitive); the last one has a type
\* outside PrimitiveType, which the response of the service is not checked
\* against
ExportPrimitives ==
    { [type |-> "BOX", position |-> Vec(0, 0, 0),
       rotation |-> Vec(0, 0, 0), scale |-> Vec(1, 1, 1),
       color |-> <<"#", "f", "f", "0", "0", "0", "0">>],
      [type |-> "CYLINDER", position |-> Vec(1, 0, 0),
       rotation |-> <<Quarter, Quarter, Num(0)>>, scale |-> Vec(2, 1, 1),
       color |-> <<"#", "1", "0", "b", "9", "8", "1">>],
      [type |-> "PYRAMID", position |-> Vec(0, 1, 0),
       rotation |-> <<Num(0), Quarter, Quarter>>, scale |-> Vec(1, 2, 3),
       color |-> <<"#", "f", "5", "9", "e", "0", "b">>],
      [type |-> "SPHERE", position |-> Vec(0, 0, -1),
       rotation |-> <<Quarter, PiTimes(1, 1), PiTimes(3, 2)>>, scale |-> Vec(1, 1, 1),
       color |-> <<"#", "e", "f", "4", "4", "4", "4">>],
      [type |-> "BOX", position |-> Vec(1, 1, 1),
       rotation |-> <<Quarter, Quarter, Quarter>>, scale |-> Vec(0, 0, 0),
       color |-> <<"#", "3", "b", "8", "2", "f", "6">>],
      [type |-> "TORUS", position |-> Vec(0, 0, 0),
       rotation |-> Vec(0, 0, 0), scale |-> Vec(1, 1, 1),
       color |-> <<"#", "f", "f", "f", "f", "f", "f">>] }

\* state.globalScale when handleExport runs
ExportScales == {Num(1), Num(2)}

\* The export tab with a model loaded: the App is as Init leaves it, but
\* state.model is set; the primitives and the scale that handleExport reads
\* from the state are exportModel and exportScale.
ExportInit ==
    /\ activeTab = "export"
    /\ images = 0
    /\ lod = "MEDIUM"
    /\ unit = "cm"
    /\ model = AiModel
    /\ globalScale = Num(1)
    /\ isProcessing = FALSE
    /\ error = Null
    /\ notification = Null
    /\ prevLodRef = "MEDIUM"
    /\ inflight = 0
    /\ ViewerInit
    /\ lastConfirm = "none"
    /\ scaleBefore = Num(1)
    /\ exportModel \in UNION { [1..n -> ExportPrimitives] : n \in 1..MaxPrimitives }
    /\ exportScale \in ExportScales
    /\ obj = NoDocument
    /\ dxf = NoDocument
    /\ meshes = <<>>
    /\ payload = NoPayload
    /\ generated = Pending

\* what the exporters get from getPrimitiveGeometry for scaledModel
Tessellation(primitives) ==
    [i \in 1..Len(primitives) |-> getPrimitiveGeometry(primitives[i])]

\* handleExport('OBJ') up to downloadFile
ExportOBJ ==
    /\ obj = NoDocument
    /\ LET scaledModel == ScaledModel(exportModel, exportScale)
       IN  /\ obj' = exportToOBJ(scaledModel)
           /\ meshes' = Tessellation(scaledModel)
    /\ UNCHANGED <<exportModel, exportScale, dxf>>
    /\ UNCHANGED <<appVars, viewerVars, lastConfirm, scaleBefore, serviceVars>>

\* handleExport('DXF') up to downloadFile
ExportDXF ==
    /\ dxf = NoDocument
    /\ LET scaledModel == ScaledModel(exportModel, exportScale)
       IN  /\ dxf' = exportToDXF(scaledModel)
           /\ meshes' = Tessellation(scaledModel)
    /\ UNCHANGED <<exportModel, exportScale, obj>>
    /\ UNCHANGED <<appVars, viewerVars, lastConfirm, scaleBefore, serviceVars>>

ExportNext ==
    \/ ExportOBJ
    \/ ExportDXF

ExportSpec == ExportInit /\ [][ExportNext]_vars

Next ==
    \/ \E n \in 1..MaxImages : HandleImageUpload(n)
    \/ RemoveImage
    \/ LoadTestModel
    \/ ProcessModel
    \/ RequestSucceeds
    \/ RequestFails
    \/ \E l \in LODs : SetLod(l)
    \/ \E t \in Tabs : SetActiveTab(t)
    \/ \E ok \in BOOLEAN : HandleExport(ok)
    \/ DismissNotification
    \/ \E u \in Units : OnUnitChange(u)
    \/ ToggleMeasure
    \/ \E m \in SurfacePoints(model) : PointerDown(m)
    \/ \E m \in HoverPoints(model) : PointerMove(m)
    \/ PointerMissed
    \/ \E v \in InputStrings : TypeInput(v)
    \/ ApplyCalibration

Spec == Init /\ [][Next]_vars

(***************************************************************************)
(* Properties.                                                             *)
(***************************************************************************)
\* the point of the unscaled model that the scale s renders at p
Unscaled(p, s) == ScaleVec(p, Div(Num(1), s))

\* C1: on an accepted confirm with parsed length L, measured distance d and
\* current scale s, the scale passed to onScaleChange (the new globalScale)
\* is L / (d / s), and the two model points that s renders at the recorded
\* points are exactly L apart when rendered under the new scale.
C1_CalibratedScale ==
    [][lastConfirm' = "accepted" =>
         LET L == parseFloat(userInputValue)
             d == currentDistance
             s == globalScale
             a == Unscaled(points[1], s)
             b == Unscaled(points[2], s)
         IN  /\ Positive(L) /\ Positive(d) /\ Positive(s)
             /\ globalScale' = Div(L, Div(d, s))
             /\ DistanceTo(ScaleVec(a, globalScale'), ScaleVec(b, globalScale')) = L
      ]_vars

\* an accepted confirm made under a scale other than 1 has changed the scale
C1_Witness ==
    /\ lastConfirm = "accepted"
    /\ scaleBefore # Num(1)
    /\ globalScale # scaleBefore
    /\ globalScale # Num(1)

\* C2: calibration does not compound: on an accepted confirm of two points
\* picked under the current scale, whatever that scale is, the new globalScale
\* is L / d0, with d0 the distance of the two picked points in the unscaled
\* model; with L = d0 it is 1.
C2_NonCompounding ==
    [][(lastConfirm' = "accepted" /\ pickScale = <<globalScale, globalScale>>) =>
         LET L == parseFloat(userInputValue)
             d0 == DistanceTo(Unscaled(points[1], pickScale[1]),
                              Unscaled(points[2], pickScale[2]))
         IN  /\ globalScale' = Div(L, d0)
             /\ L = d0 => globalScale' = Num(1)
      ]_vars

\* after calibrating the AI model to 2 (L = 2 * d0), a second accepted confirm
\* with L = d0 has brought globalScale back to 1
C2_Witness ==
    /\ lastConfirm = "accepted"
    /\ model = AiModel
    /\ scaleBefore = Num(2)
    /\ globalScale = Num(1)

\* C3: a confirm, which the panel offers only while two points are recorded,
\* is rejected exactly when L <= 0, L is not a number or d = 0 (the recorded
\* points coincide), and a rejected confirm leaves globalScale, the recorded
\* points, the measure-mode flag and the typed input as they were.
C3_RejectedConfirm ==
    [][lastConfirm' \in {"accepted", "rejected"} =>
         LET L == parseFloat(userInputValue)
             d == DistanceOfPoints(points)
             invalid == isNaN(L) \/ ~Positive(L) \/ d = Num(0)
         IN  /\ Len(points) = 2
             /\ d = Num(0) <=> points[1] = points[2]
             /\ lastConfirm' = "rejected" <=> invalid
             /\ lastConfirm' = "rejected" =>
                  UNCHANGED <<globalScale, points, isMeasureMode, userInputValue>>
      ]_vars

\* a confirm of two coincident points with a valid length has been rejected
C3_Witness ==
    /\ lastConfirm = "rejected"
    /\ Len(points) = 2
    /\ points[1] = points[2]
    /\ Positive(parseFloat(userInputValue))

\* C4: a rejected confirm is reported: it shows an error notification or
\* changes some state of the App or of the viewer, which the caller can tell
\* from an accepted confirm.
C4_RejectionReported ==
    [][lastConfirm' = "rejected" =>
         \/ notification' = "error"
         \/ <<appVars, viewerVars>>' # <<appVars, viewerVars>>
      ]_vars

\* C5: the scale an accepted confirm divides the measured distance by is the
\* globalScale under which both recorded points were picked.
C5_ScaleOfMeasurement ==
    [][lastConfirm' = "accepted" => pickScale = <<globalScale, globalScale>>]_vars


\* C6: entering measure mode starts with no point recorded; in measure mode
\* the first pick records exactly that point as PointA, and the second pick
\* records PointB after it, after which the distance between the two is
\* available and the confirm panel is offered.
C6_PickFlow ==
    [][/\ (~isMeasureMode /\ isMeasureMode') => points' = <<>>
       /\ \A m \in SurfacePoints(model) :
            (PointerDown(m) /\ isMeasureMode) =>
               /\ Len(points) = 0 => points' = <<EventPoint(m)>> /\ ~ConfirmOffered'
               /\ Len(points) = 1 =>
                    /\ points' = <<points[1], EventPoint(m)>>
                    /\ DistanceOfPoints(points') = DistanceTo(points[1], EventPoint(m))
                    /\ ConfirmOffered'
      ]_vars

\* two different points are recorded and the confirm panel is offered
C6_Witness ==
    /\ isMeasureMode
    /\ ConfirmOffered
    /\ points[1] # points[2]
    /\ Positive(currentDistance)

\* C7: an accepted confirm leaves no point recorded and measure mode off;
\* the measure button pressed in measure mode (cancel), with zero, one or two
\* points recorded, does the same and leaves globalScale unchanged.
C7_ResetToIdle ==
    [][/\ lastConfirm' = "accepted" => (points' = <<>> /\ ~isMeasureMode')
       /\ (ToggleMeasure /\ isMeasureMode) =>
            (points' = <<>> /\ ~isMeasureMode' /\ globalScale' = globalScale)
      ]_vars

\* Measure mode is off with no point recorded while a typed length is still
\* in the input: the input is typed only with two points recorded, and only
\* the cancel button clears the points without clearing it.
C7_Witness ==
    /\ ViewerMounted
    /\ ~isMeasureMode
    /\ points = <<>>
    /\ userInputValue # <<>>

\* C8: globalScale is 1 initially and a finite number greater than 0 in every
\* reachable state.
C8_PositiveScale ==
    globalScale = Num(1) /\ [](IsFinite(globalScale) /\ globalScale[1] > 0)

\* a confirm with a negative length has been refused under a calibrated scale
C8_Witness ==
    /\ lastConfirm = "rejected"
    /\ parseFloat(userInputValue)[1] < 0
    /\ globalScale # Num(1)

SnapThreshold == 2

\* the pick operation of the calibration engine: the vertex of vertices
\* nearest to raw when it is within threshold, raw otherwise
Snap(raw, vertices, threshold) ==
    LET near == {v \in vertices :
                   Leq(DistanceToSquared(raw, v), Mul(threshold, threshold))}
    IN  IF near = {} THEN raw
        ELSE CHOOSE v \in near :
               \A w \in near : Leq(DistanceToSquared(raw, v), DistanceToSquared(raw, w))

\* C10: the point a pick records is the raw surface point snapped to the
\* nearest vertex of the picked primitive's mesh within the threshold.
C10_PickSnaps ==
    [][\A m \in SurfacePoints(model) :
         (PointerDown(m) /\ isMeasureMode) =>
            points'[Len(points')] =
               Snap(EventPoint(m), BoxMeshVertices(Primitives(model)[1], globalScale),
                    Mul(Num(SnapThreshold), globalScale))
      ]_vars

(***************************************************************************)
(* Properties of the export.                                               *)
(***************************************************************************)
\* scaledModel of the export under check
scaledPrimitives == ScaledModel(exportModel, exportScale)

\* a whole number of quarter turns
IsQuarterTurn(a) == Len(a) = 3 /\ a[3] \in {1, 2}

\* the matrices of the right-handed rotations about X, Y and Z by the angle a,
\* and of the scale s
RotX(a) ==
    << <<Num(1), Num(0), Num(0)>>,
       <<Num(0), Cos(a), Mul(Num(-1), Sin(a))>>,
       <<Num(0), Sin(a), Cos(a)>> >>

RotY(a) ==
    << <<Cos(a), Num(0), Sin(a)>>,
       <<Num(0), Num(1), Num(0)>>,
       <<Mul(Num(-1), Sin(a)), Num(0), Cos(a)>> >>

RotZ(a) ==
    << <<Cos(a), Mul(Num(-1), Sin(a)), Num(0)>>,
       <<Sin(a), Cos(a), Num(0)>>,
       <<Num(0), Num(0), Num(1)>> >>

ScaleMatrix(s) ==
    << <<s[1], Num(0), Num(0)>>,
       <<Num(0), s[2], Num(0)>>,
       <<Num(0), Num(0), s[3]>> >>

MatMul(A, B) ==
    [r \in 1..3 |-> [c \in 1..3 |->
       Add(Add(Mul(A[r][1], B[1][c]), Mul(A[r][2], B[2][c])), Mul(A[r][3], B[3][c]))]]

MatVec(A, v) ==
    [r \in 1..3 |->
       Add(Add(Mul(A[r][1], v[1]), Mul(A[r][2], v[2])), Mul(A[r][3], v[3]))]

\* the matrix Rz . Ry . Rx . S of the primitive p
ComposedMatrix(p) ==
    MatMul(RotZ(p.rotation[3]),
           MatMul(RotY(p.rotation[2]),
                  MatMul(RotX(p.rotation[1]), ScaleMatrix(p.scale))))

\* the translation T by t applied to w
Translate(w, t) == <<Add(w[1], t[1]), Add(w[2], t[2]), Add(w[3], t[3])>>

\* C11: every vertex an export obtained for a primitive whose rotations are
\* quarter turns is T . Rz . Ry . Rx . S applied to the unit vertex it comes
\* from: scale first, then the right-handed rotations about X, Y and Z in
\* that order, then the translation.
C11_TransformOrder ==
    \A i \in 1..Len(meshes) :
      LET p == scaledPrimitives[i]
          M == [r \in 1..3 |-> [c \in 1..3 |-> ComposedMatrix(p)[r][c]]]
          uv == UnitVertices(p.type)
      IN  (\A k \in 1..3 : IsQuarterTurn(p.rotation[k]) \/ p.rotation[k] = Num(0)) =>
            \A j \in 1..Len(meshes[i].vertices) :
              meshes[i].vertices[j] = Translate(MatVec(M, uv[j]), p.position)

\* an export has tessellated a primitive turned about two axes whose
\* rotations do not commute on it
C11_Witness ==
    \E i \in 1..Len(meshes) :
      /\ scaledPrimitives[i].type = "PYRAMID"
      /\ scaledPrimitives[i].rotation = <<Num(0), Quarter, Quarter>>
      /\ Len(meshes[i].vertices) = 5
      /\ meshes[i].vertices[5] # scaledPrimitives[i].position

\* C12: the export is linear in the global scale: every vertex an export
\* obtained under the global scale k is k times the vertex the tessellation
\* of the same primitive gives under the global scale 1, that is, of the
\* model as stored (position and scale are multiplied by k, the rotation is
\* not).
C12_LinearInScale ==
    \A i \in 1..Len(meshes) :
      LET unscaled == getPrimitiveGeometry(exportModel[i])
      IN  /\ Len(meshes[i].vertices) = Len(unscaled.vertices)
          /\ \A j \in 1..Len(meshes[i].vertices) :
               meshes[i].vertices[j] = ScaleVec(unscaled.vertices[j], exportScale)

\* an export under the global scale 2 of a turned, moved primitive: a vertex
\* differs from its place under the scale 1
C12_Witness ==
    /\ exportScale = Num(2)
    /\ \E i \in 1..Len(meshes) :
         /\ exportModel[i].type = "CYLINDER"
         /\ meshes[i].vertices[1] # getPrimitiveGeometry(exportModel[i]).vertices[1]
         /\ meshes[i].vertices[1] =
              ScaleVec(getPrimitiveGeometry(exportModel[i]).vertices[1], Num(2))

\* the faces of the mesh g with n corners
FacesOfSize(g, n) == {j \in 1..Len(g.faces) : Len(g.faces[j]) = n}

\* the faces of the mesh g that have the vertex with index v as a corner
FacesAt(g, v) ==
    {j \in 1..Len(g.faces) : \E k \in 1..Len(g.faces[j]) : g.faces[j][k] = v}

\* C13: the mesh an export obtains for a primitive has, per kind: BOX 8
\* vertices and 6 quads; CYLINDER (N = 16) 2N rim vertices and 2 centers, N
\* side quads and N triangles on each cap, each a fan triangle at the center
\* of its cap; PYRAMID 5 vertices, 1 quad and 4 triangles at the apex; SPHERE
\* (8+1)*(12+1) vertices and 8*12 quads, each between two adjacent rings of
\* the grid.
C13_TessellationCounts ==
    \A i \in 1..Len(meshes) :
      LET g == meshes[i]
          type == exportModel[i].type
          nv == Len(g.vertices)
          nf == Len(g.faces)
          quads == Cardinality(FacesOfSize(g, 4))
          tris == Cardinality(FacesOfSize(g, 3))
      IN  /\ type = "BOX" => nv = 8 /\ nf = 6 /\ quads = 6
          /\ type = "CYLINDER" =>
               /\ nv = 2 * 16 + 2
               /\ nf = 3 * 16 /\ quads = 16 /\ tris = 2 * 16
               /\ Cardinality(FacesOfSize(g, 3) \cap FacesAt(g, 2 * 16)) = 16
               /\ Cardinality(FacesOfSize(g, 3) \cap FacesAt(g, 2 * 16 + 1)) = 16
          /\ type = "PYRAMID" =>
               /\ nv = 5 /\ nf = 5 /\ quads = 1 /\ tris = 4
               /\ FacesOfSize(g, 3) \subseteq FacesAt(g, 4)
          /\ type = "SPHERE" =>
               /\ nv = (8 + 1) * (12 + 1)
               /\ nf = 8 * 12 /\ quads = 8 * 12
               /\ \A j \in 1..nf :
                    LET f == g.faces[j]
                    IN  /\ f[2] = f[1] + (12 + 1)
                        /\ f[3] = f[2] + 1
                        /\ f[4] = f[1] + 1
                        /\ f[1] % (12 + 1) < 12

\* an export has tessellated a cylinder and a sphere
C13_Witness ==
    /\ \E i \in 1..Len(meshes) :
         exportModel[i].type = "CYLINDER" /\ Len(meshes[i].faces) = 48
    /\ \E i \in 1..Len(meshes) :
         exportModel[i].type = "SPHERE" /\ Len(meshes[i].vertices) = 117

\* types.ts: PrimitiveType
PrimitiveType == {"BOX", "CYLINDER", "PYRAMID", "SPHERE"}

\* C14: a primitive whose kind is not BOX, CYLINDER, PYRAMID or SPHERE gets no
\* geometry: an export obtains no vertices for it, and the OBJ document has
\* no group for such a kind.
C14_UnknownKindRejected ==
    /\ \A i \in 1..Len(meshes) :
         exportModel[i].type \notin PrimitiveType => meshes[i].vertices = << >>
    /\ \A l \in 1..Len(obj) :
         obj[l].kind = "g" => obj[l].name[3] \in PrimitiveType

\* the lines of the OBJ document doc that are group statements
GroupStarts(doc) == {l \in 1..Len(doc) : doc[l].kind = "g"}

\* the number of the group a line l belongs to, given the lines of the group
\* statements: the number of group statements up to and including l
GroupOf(starts, l) == Cardinality({s \in starts : s <= l})

\* C15: OBJ face indices are 1-based and global: every index on a face line
\* of the i-th group lies in (V, V + n], where V is the number of vertex
\* lines before the i-th group and n the number of vertex lines of the i-th
\* group; no face line comes before the first group.
C15_GlobalFaceIndices ==
    LET starts == GroupStarts(obj)
        vLines == {l \in 1..Len(obj) : obj[l].kind = "v"}
        fLines == {l \in 1..Len(obj) : obj[l].kind = "f"}
    IN  /\ \A l \in fLines : GroupOf(starts, l) >= 1
        /\ \A i \in 1..Cardinality(starts) :
             LET V == Cardinality({l \in vLines : GroupOf(starts, l) < i})
                 n == Cardinality({l \in vLines : GroupOf(starts, l) = i})
             IN  \A l \in fLines :
                   GroupOf(starts, l) = i =>
                     \A k \in 1..Len(obj[l].idx) :
                       obj[l].idx[k] > V /\ obj[l].idx[k] <= V + n

\* the OBJ document of a model of two boxes: the face lines of the second
\* box exist and all their indices exceed 8
C15_Witness ==
    /\ Len(exportModel) = 2
    /\ exportModel[1].type = "BOX" /\ exportModel[2].type = "BOX"
    /\ obj # NoDocument
    /\ LET starts == GroupStarts(obj)
           second == {l \in 1..Len(obj) : obj[l].kind = "f" /\ GroupOf(starts, l) = 2}
       IN  /\ second # {}
           /\ \A l \in second : \A k \in 1..Len(obj[l].idx) : obj[l].idx[k] > 8

\* C16: the OBJ document has exactly one group statement per primitive, in
\* the order of model.primitives and skipping none: the i-th group statement
\* of the document is named with the index i and the kind of the primitive
\* at the 1-based position i.
C16_OneGroupPerPrimitive ==
    obj # NoDocument =>
      LET starts == GroupStarts(obj)
      IN  /\ Cardinality(starts) = Len(exportModel)
          /\ \A l \in starts :
               LET i == GroupOf(starts, l)
               IN  /\ obj[l].name[2] = i
                   /\ obj[l].name[3] = exportModel[i].type

\* the OBJ document of a model whose second primitive has the scale zero and
\* is of another kind than the first: its group is there, as the second
C16_Witness ==
    /\ obj # NoDocument
    /\ Len(exportModel) = 2
    /\ exportModel[1].type = "CYLINDER"
    /\ exportModel[2].scale = Vec(0, 0, 0)
    /\ \E l \in GroupStarts(obj) :
         GroupOf(GroupStarts(obj), l) = 2 /\ obj[l].name = <<"Pieza", 2, "BOX">>

RECURSIVE FaceCount(_, _)
\* the number of faces of the first n meshes of the tessellation ms
FaceCount(ms, n) == IF n = 0 THEN 0 ELSE FaceCount(ms, n - 1) + Len(ms[n].faces)

\* C17: the number of face lines of the OBJ document and the number of
\* 3DFACE entities of the DXF document both equal the sum, over the
\* primitives, of the number of faces of the primitive's tessellation, a
\* quad counting once.
C17_FaceCounts ==
    /\ obj # NoDocument =>
         Cardinality({l \in 1..Len(obj) : obj[l].kind = "f"})
           = FaceCount(meshes, Len(meshes))
    /\ dxf # NoDocument =>
         Cardinality({e \in 1..Len(dxf.entities) : dxf.entities[e].kind = "3DFACE"})
           = FaceCount(meshes, Len(meshes))

\* both documents of a model with quads and triangles, one primitive of
\* scale zero
C17_Witness ==
    /\ obj # NoDocument /\ dxf # NoDocument
    /\ Len(exportModel) = 2
    /\ exportModel[1].type = "PYRAMID"
    /\ exportModel[2].scale = Vec(0, 0, 0)
    /\ FaceCount(meshes, Len(meshes)) = 5 + 6
    /\ Len(dxf.entities) = 5 + 6

\* C18: the two documents of a model carry the same geometry: for every
\* primitive i the DXF document has as many 3DFACE entities on the layer of
\* i as the OBJ document has face lines in group i, and the corners of the
\* j-th of these entities are, in the same order, the coordinates on the
\* vertex lines that the j-th of these face lines refers to (a triangle
\* repeating its third corner as the fourth).
C18_SameGeometry ==
    (obj # NoDocument /\ dxf # NoDocument) =>
      LET IsV(x) == x.kind = "v"
          IsF(x) == x.kind = "f"
          vSeq == SelectSeq(obj, IsV)
          fSeq == SelectSeq(obj, IsF)
          starts == GroupStarts(obj)
          fLines == {l \in 1..Len(obj) : obj[l].kind = "f"}
      IN  \A i \in 1..Len(exportModel) :
            LET OnLayer(x) == x.kind = "3DFACE" /\ x.layer = <<"PIEZA", i>>
                entities == SelectSeq(dxf.entities, OnLayer)
                before == Cardinality({l \in fLines : GroupOf(starts, l) < i})
                count == Cardinality({l \in fLines : GroupOf(starts, l) = i})
            IN  /\ Len(entities) = count
                /\ \A j \in 1..count :
                     LET f == fSeq[before + j]
                         e == entities[j]
                     IN  /\ \A c \in 1..Len(f.idx) : e.corners[c] = vSeq[f.idx[c]].xyz
                         /\ Len(f.idx) = 3 => e.corners[4] = e.corners[3]

\* both documents of a model with a turned pyramid after a cylinder: a
\* triangle of the second primitive is there, with three distinct corners
C18_Witness ==
    /\ obj # NoDocument /\ dxf # NoDocument
    /\ Len(exportModel) = 2
    /\ exportModel[1].type = "CYLINDER" /\ exportModel[2].type = "PYRAMID"
    /\ \E e \in 1..Len(dxf.entities) :
         LET c == dxf.entities[e].corners
         IN  /\ dxf.entities[e].layer = <<"PIEZA", 2>>
             /\ c[4] = c[3] /\ c[1] # c[2] /\ c[2] # c[3] /\ c[1] # c[3]

\* C19: the LAYER table of the DXF document has exactly one LAYER record per
\* primitive, the i-th named from the 1-based index i, and each record
\* carries the color of its own primitive (its AutoCAD color index).
C19_LayerPerPrimitive ==
    dxf # NoDocument =>
      LET records == dxf.layerTable.records
      IN  /\ Len(records) = Len(exportModel)
          /\ \A i \in 1..Len(records) :
               /\ records[i].name = <<"PIEZA", i>>
               /\ records[i].color = hexToACI(exportModel[i].color)

\* C20: every 3DFACE entity of the DXF document is tagged with the layer of
\* the primitive it was tessellated from (the j-th face of the primitive i,
\* whose first corner it carries, is on the layer named from i), and that
\* layer is declared by a record of the LAYER table of the document.
C20_FacesOnDeclaredLayers ==
    dxf # NoDocument =>
      /\ Len(dxf.entities) = FaceCount(meshes, Len(meshes))
      /\ \A i \in 1..Len(meshes) :
           LET before == FaceCount(meshes, i - 1)
           IN  \A j \in 1..Len(meshes[i].faces) :
                 LET e == dxf.entities[before + j]
                 IN  /\ e.kind = "3DFACE"
                     /\ e.corners[1] = FixedVec(meshes[i].vertices[meshes[i].faces[j][1] + 1])
                     /\ e.layer = <<"PIEZA", i>>
                     /\ \E r \in 1..Len(dxf.layerTable.records) :
                          /\ dxf.layerTable.records[r].kind = "LAYER"
                          /\ dxf.layerTable.records[r].name = e.layer

\* the DXF document of a model of two primitives with faces: an entity is on
\* the second layer
C20_Witness ==
    /\ dxf # NoDocument
    /\ Len(exportModel) = 2
    /\ exportModel[1].type = "SPHERE" /\ exportModel[2].type = "BOX"
    /\ Len(dxf.entities) = 96 + 6
    /\ dxf.entities[96 + 1].layer = <<"PIEZA", 2>>
    /\ dxf.layerTable.records[2].name = <<"PIEZA", 2>>

(***************************************************************************)
(* Colors of an export: models of one unit box whose color is any of a set  *)
(* of color strings, exported by the same handlers.                         *)
(***************************************************************************)
\* the two hexadecimal digits of a channel: 0, 99, 100, 180, 181 and 255,
\* the values on both sides of the thresholds of hexToACI
ChannelDigits ==
    { <<"0", "0">>, <<"6", "3">>, <<"6", "4">>, <<"b", "4">>, <<"b", "5">>,
      <<"f", "f">> }

\* the colors #rrggbb over ChannelDigits
WellFormedColors ==
    { <<"#">> \o r \o g \o b : r \in ChannelDigits, g \in ChannelDigits, b \in ChannelDigits }

\* color strings that are no #rrggbb value: empty, '#', '#ff', '#fff',
\* '#ff00', '#ff00zz', '#gggggg', '#00ff0', 'ff0000' and '#0000ffff'
MalformedColors ==
    { << >>,
      <<"#">>,
      <<"#", "f", "f">>,
      <<"#", "f", "f", "f">>,
      <<"#", "f", "f", "0", "0">>,
      <<"#", "f", "f", "0", "0", "z", "z">>,
      <<"#", "g", "g", "g", "g", "g", "g">>,
      <<"#", "0", "0", "f", "f", "0">>,
      <<"f", "f", "0", "0", "0", "0">>,
      <<"#", "0", "0", "0", "0", "f", "f", "f", "f">> }

\* a 7-character #rrggbb value
IsWellFormedColor(hex) ==
    /\ Len(hex) = 7
    /\ hex[1] = "#"
    /\ \A k \in 2..7 : IsHexDigit(hex[k])

\* the unit box of the color hex
ColoredBox(hex) ==
    [type |-> "BOX", position |-> Vec(0, 0, 0), rotation |-> Vec(0, 0, 0),
     scale |-> Vec(1, 1, 1), color |-> hex]

\* The export tab with a model of one box of some color loaded.
ColorInit ==
    /\ activeTab = "export"
    /\ images = 0
    /\ lod = "MEDIUM"
    /\ unit = "cm"
    /\ model = AiModel
    /\ globalScale = Num(1)
    /\ isProcessing = FALSE
    /\ error = Null
    /\ notification = Null
    /\ prevLodRef = "MEDIUM"
    /\ inflight = 0
    /\ ViewerInit
    /\ lastConfirm = "none"
    /\ scaleBefore = Num(1)
    /\ exportModel \in { <<ColoredBox(hex)>> : hex \in WellFormedColors \cup MalformedColors }
    /\ exportScale = Num(1)
    /\ obj = NoDocument
    /\ dxf = NoDocument
    /\ meshes = << >>
    /\ payload = NoPayload
    /\ generated = Pending

ColorSpec == ColorInit /\ [][ExportNext]_vars

\* the channels <<r, g, b>> of a well-formed color
Channels(hex) ==
    <<HexValue(hex, 2, 2), HexValue(hex, 4, 2), HexValue(hex, 6, 2)>>

\* the channels of the base color with the index aci (1 red, 2 yellow,
\* 3 green, 4 cyan, 5 blue, 6 magenta)
BaseChannels(aci) == << {1}, {1, 2}, {2}, {2, 3}, {3}, {1, 3} >>[aci]

\* the channels of rgb that hold its greatest value
DominantChannels(rgb) == {k \in 1..3 : \A m \in 1..3 : rgb[k] >= rgb[m]}

\* C21: the color index on the 3DFACE entities of a primitive with a
\* well-formed color is in 1..7; it is 7 only when there is a tie (no single
\* channel is greater than both others), and otherwise it is the index of a
\* base color made of dominant channels of the color.
C21_DominantChannel ==
    dxf # NoDocument =>
      \A e \in 1..Len(dxf.entities) :
        LET hex == exportModel[dxf.entities[e].layer[2]].color
            aci == dxf.entities[e].color
        IN  IsWellFormedColor(hex) =>
              /\ aci \in 1..7
              /\ aci = 7 => Cardinality(DominantChannels(Channels(hex))) > 1
              /\ aci # 7 => BaseChannels(aci) \subseteq DominantChannels(Channels(hex))

\* C22: a primitive whose color string is no well-formed 7-character
\* #rrggbb value gets the default color: every 3DFACE entity of it carries
\* the color index 7, never one derived from the part of the string that
\* parses.
C22_ColorFallback ==
    dxf # NoDocument =>
      \A e \in 1..Len(dxf.entities) :
        ~IsWellFormedColor(exportModel[dxf.entities[e].layer[2]].color) =>
          dxf.entities[e].color = 7

\* C23: a step of handleExport, whether it succeeds, fails or finds no
\* model, leaves state.model and state.globalScale as they were; with no
\* model it changes no notification, and a failure sets the error
\* notification, a success the success notification.
C23_ExportFrame ==
    [][\A ok \in BOOLEAN :
         HandleExport(ok) =>
           /\ model' = model
           /\ globalScale' = globalScale
           /\ model = Null => notification' = notification
           /\ (model # Null /\ ~ok) => notification' = "error"
           /\ (model # Null /\ ok) => notification' = "success"
      ]_vars

\* a failed export of a calibrated model: the error notification is shown,
\* the model and its calibrated scale are still there
C23_Witness ==
    /\ notification = "error"
    /\ model # Null
    /\ globalScale # Num(1)
    /\ activeTab = "export"

(***************************************************************************)
(* The inference service (generate3DPrimitives).                           *)
(***************************************************************************)
MaxPayloadPrimitives == 1

\* the fields an element of the primitives array can have
PrimitiveFields == {"type", "position", "rotation", "scale", "color"}

\* the elements of the primitives array of a payload
PayloadItems ==
    { [fields |-> f \cup {"type"}, type |-> t] :
        f \in SUBSET (PrimitiveFields \ {"type"}), t \in PrimitiveType \cup {"TORUS"} }
    \cup { [fields |-> f, type |-> ""] : f \in SUBSET (PrimitiveFields \ {"type"}) }

\* what the service can return as response.text
Payloads ==
    { Payload(t, FALSE, "none", "none", << >>) : t \in {"empty", "garbage"} }
    \cup { Payload("json", fenced, d, "none", << >>) :
             fenced \in BOOLEAN, d \in {"null", "number", "array"} }
    \cup { Payload("json", fenced, "object", k, << >>) :
             fenced \in BOOLEAN, k \in {"absent", "null", "string", "object"} }
    \cup { Payload("json", fenced, "object", "array", items) :
             fenced \in BOOLEAN,
             items \in UNION { [1..n -> PayloadItems] : n \in 0..MaxPayloadPrimitives } }

\* generate3DPrimitives from response.text on; a markdown fence around the
\* text is removed before JSON.parse, so p.fenced changes nothing
generate3DPrimitives(p) ==
    IF p.text = "empty"
    THEN Outcome("rejected", "Empty response from AI", << >>)
    ELSE IF \/ p.text = "garbage"
            \/ p.data # "object"
            \/ p.primitives # "array"
    THEN Outcome("rejected", "Invalid model data received from AI. Check console for details.", << >>)
    ELSE Outcome("resolved", "", p.items)

\* A call of generate3DPrimitives whose request the service has answered.
ServiceInit ==
    /\ activeTab = "viewer"
    /\ images = 1
    /\ lod = "MEDIUM"
    /\ unit = "cm"
    /\ model = Null
    /\ globalScale = Num(1)
    /\ isProcessing = TRUE
    /\ error = Null
    /\ notification = Null
    /\ prevLodRef = "MEDIUM"
    /\ inflight = 1
    /\ ViewerInit
    /\ lastConfirm = "none"
    /\ scaleBefore = Num(1)
    /\ exportModel = << >>
    /\ exportScale = Num(1)
    /\ obj = NoDocument
    /\ dxf = NoDocument
    /\ meshes = << >>
    /\ payload \in Payloads
    /\ generated = Pending

\* the rest of generate3DPrimitives once the response is there
Generate ==
    /\ generated = Pending
    /\ generated' = generate3DPrimitives(payload)
    /\ UNCHANGED payload
    /\ UNCHANGED <<appVars, viewerVars, lastConfirm, scaleBefore, exportVars>>

ServiceNext == Generate

ServiceSpec == ServiceInit /\ [][ServiceNext]_vars

\* the element it of a primitives array fits the Primitive schema
FitsPrimitiveSchema(it) == it.fields = PrimitiveFields /\ it.type \in PrimitiveType

\* the payload p parses into a model of the Primitive schema
FitsSchema(p) ==
    /\ p.text = "json"
    /\ p.data = "object"
    /\ p.primitives = "array"
    /\ \A i \in 1..Len(p.items) : FitsPrimitiveSchema(p.items[i])

\* C24: generate3DPrimitives ends with an error, and returns no model,
\* whenever the payload is empty or does not parse into the Primitive schema
\* (a primitive without a required field or with a type outside the
\* enumeration, a primitives value that is no array).
C24_MalformedPayloadRejected ==
    generated # Pending =>
      (~FitsSchema(payload) => generated.status = "rejected")

\* C25: the mesh an export obtains for a primitive of one of the four kinds
\* is well-formed: every face has 3 or 4 indices, and every index is in
\* 0 .. vertices.length - 1.
C25_WellFormedMesh ==
    \A i \in 1..Len(meshes) :
      exportModel[i].type \in PrimitiveType =>
        \A j \in 1..Len(meshes[i].faces) :
          LET f == meshes[i].faces[j]
          IN  /\ Len(f) \in {3, 4}
              /\ \A k \in 1..Len(f) : f[k] >= 0 /\ f[k] <= Len(meshes[i].vertices) - 1

\* an export has tessellated a sphere and a cylinder: the last quad of the
\* sphere reaches the last vertex of its grid, the last side quad of the
\* cylinder wraps around to the first rim vertex, and its fans reach the
\* two centers
C25_Witness ==
    /\ \E i \in 1..Len(meshes) :
         /\ exportModel[i].type = "SPHERE"
         /\ meshes[i].faces[96][3] = Len(meshes[i].vertices) - 1
    /\ \E i \in 1..Len(meshes) :
         /\ exportModel[i].type = "CYLINDER"
         /\ meshes[i].faces[46] = <<15, 0, 16, 31>>
         /\ meshes[i].faces[47][2] = 32
         /\ meshes[i].faces[48][3] = 33

\* C26: in every reachable state zero, one or two calibration points are
\* recorded, and none while measure mode is off; a pick made while measure
\* mode is off records nothing, and leaving measure mode (by the measure
\* button or by an accepted confirm) leaves no point recorded.
C26_PointsBounded ==
    /\ [](Len(points) \in 0..2 /\ (~isMeasureMode => points = <<>>))
    /\ [][/\ \A m \in SurfacePoints(model) :
               (PointerDown(m) /\ ~isMeasureMode) => points' = points
          /\ (isMeasureMode /\ ~isMeasureMode') => points' = <<>>
         ]_vars

\* the viewer is still shown after an accepted confirm of two points: measure
\* mode is off and no point is recorded
C26_Witness ==
    /\ ViewerMounted
    /\ lastConfirm = "accepted"
    /\ ~isMeasureMode
    /\ Len(points) = 0

\* C27: a pick made in measure mode while two points are recorded replaces
\* both by the new point alone: one point is recorded afterwards, measure
\* mode stays on (the flow is at PointA selected, not at Idle), the confirm
\* panel is no longer offered and globalScale is unchanged.
C27_ThirdPickRestarts ==
    [][\A m \in SurfacePoints(model) :
         (PointerDown(m) /\ isMeasureMode /\ Len(points) = 2) =>
            /\ points' = <<EventPoint(m)>>
            /\ isMeasureMode'
            /\ ~ConfirmOffered'
            /\ globalScale' = globalScale
      ]_vars

\* one point is recorded in measure mode while the length typed into the
\* panel of two recorded points is still in the input
C27_Witness ==
    /\ ViewerMounted
    /\ isMeasureMode
    /\ Len(points) = 1
    /\ userInputValue # <<>>
    /\ lastConfirm = "none"

\* C28: while an inference request started by processModel is in flight,
\* isProcessing is true.
C28_ProcessingWhileInFlight ==
    inflight > 0 => isProcessing

\* C29: the start of an inference request and its failure both leave model
\* and globalScale as they were (the failure leaves every App field other
\* than isProcessing and error as it was); the model changes only by a
\* successful request or by loadTestModel, and the same update sets
\* globalScale to 1.
C29_FailureKeepsModel ==
    [][/\ inflight' > inflight => (model' = model /\ globalScale' = globalScale)
       /\ RequestFails =>
            /\ model' = model
            /\ globalScale' = globalScale
            /\ UNCHANGED <<activeTab, images, lod, unit, notification>>
       /\ model' # model =>
            /\ LoadTestModel \/ RequestSucceeds
            /\ globalScale' = Num(1)
      ]_vars

\* a request has failed while a model calibrated to a scale other than 1 is
\* held
C29_Witness ==
    /\ error # Null
    /\ ~isProcessing
    /\ model # Null
    /\ globalScale # Num(1)
    /\ scaleBefore = globalScale

(***************************************************************************)
(* The LAYER table of models of the size the MEDIUM level asks for.        *)
(***************************************************************************)
\* DEFAULT_LOD_CONFIGS[LOD.MEDIUM].maxPrimitives, the number of primitives
\* the prompt of the default level allows the service to return
MediumMaxPrimitives == 12

\* The export tab with a model of one to MediumMaxPrimitives copies of one
\* primitive loaded.
LayerInit ==
    /\ activeTab = "export"
    /\ images = 0
    /\ lod = "MEDIUM"
    /\ unit = "cm"
    /\ model = AiModel
    /\ globalScale = Num(1)
    /\ isProcessing = FALSE
    /\ error = Null
    /\ notification = Null
    /\ prevLodRef = "MEDIUM"
    /\ inflight = 0
    /\ ViewerInit
    /\ lastConfirm = "none"
    /\ scaleBefore = Num(1)
    /\ exportModel \in { [i \in 1..n |-> p] :
                           n \in 1..MediumMaxPrimitives, p \in ExportPrimitives }
    /\ exportScale \in ExportScales
    /\ obj = NoDocument
    /\ dxf = NoDocument
    /\ meshes = << >>
    /\ payload = NoPayload
    /\ generated = Pending

LayerSpec == LayerInit /\ [][ExportNext]_vars

\* C30: in a DXF document the entry count that the header of the LAYER table
\* declares (group code 70 after the table name) is at least the number of
\* LAYER records that follow it.
C30_LayerCountDeclared ==
    dxf # NoDocument =>
      dxf.layerTable.maxEntries >= Len(dxf.layerTable.records)

=============================================================================
